---- MODULE Spec2Model ----
(***************************************************************************)
(* Model of the FinanzasDB storage adapter and the useFinanzas hook of     *)
(* src/src/commons/ui/components/acordion/index.tsx.                       *)
(*                                                                         *)
(* The IndexedDB engine is modelled by its documented behaviour: a named   *)
(* database with a version, object stores with in-line key "id" and a key  *)
(* generator, a FIFO queue of open requests, and requests that run         *)
(* atomically inside their transaction.                                    *)
(***************************************************************************)
EXTENDS Integers, Sequences, FiniteSets, TLC

(***************************************************************************)
(* Bounds of the model.                                                    *)
(***************************************************************************)
MaxKey == 2          \* keys the generator of transacciones issues (Spec)
MaxResumenKey == 3   \* the same, under SpecResumen
MaxSessionKey == 1   \* the same, under SpecSession
MaxSeedKey == 4      \* keys the generator of categorias issues
MaxPending == 2      \* open requests waiting in the engine at once
MaxHandles == 2      \* connections opened within one page session
MaxNow == 2          \* largest value of the clock Date.now()
MaxRunning == 2      \* onSubmit promises of the form that are pending at once
MaxUuid == 2         \* values uuidv4() gives out
MaxList == 2         \* length of the index-based income store's list

(***************************************************************************)
(* Adapter instances.  Instance 1 is the one the hook builds with          *)
(* new FinanzasDB(); instance 2 is built with { dbVersion: 2 }; instance 3 *)
(* is another new FinanzasDB().                                            *)
(***************************************************************************)
Inst == {1, 2, 3}

DefaultDbVersion == 1

OtherDbVersion == 2

dbVersion(i) == IF i = 2 THEN OtherDbVersion ELSE DefaultDbVersion

NoHandle == 0        \* this.db = null

StoreNames == {"categorias", "subcategorias", "transacciones"}

(***************************************************************************)
(* JavaScript values for the field fecha.  A Date object carries a time or *)
(* is an Invalid Date; a number and a string are not Date objects.         *)
(***************************************************************************)
DateObj(t) == [type |-> "Date", valid |-> TRUE, time |-> t]

InvalidDate == [type |-> "Date", valid |-> FALSE]

NumberVal(n) == [type |-> "number", value |-> n]

StringVal(s) == [type |-> "string", value |-> s]

InstanceOfDate(v) == v.type = "Date"

\* JavaScript truthiness of the values above (0 and "" are falsy).
Truthy(v) ==
    CASE v.type = "number" -> v.value # 0
      [] v.type = "string" -> v.value # ""
      [] v.type = "boolean" -> v.value
      [] v.type = "undefined" -> FALSE
      [] OTHER -> TRUE

\* new Date(v) for a number (time value) or a string (parsed; text that is
\* no date gives an Invalid Date).
NewDate(v) ==
    CASE v.type = "number" -> DateObj(v.value)
      [] v.type = "Date" -> v
      [] OTHER -> InvalidDate

\* registrarTransaccion, lines 278-280: a fecha that is no Date object is
\* replaced by new Date(fecha || Date.now()).
CoerceFecha_None(tx, now) == tx

CoerceFecha_AlwaysNow(tx, now) ==
    IF "fecha" \in DOMAIN tx /\ InstanceOfDate(tx.fecha)
    THEN tx
    ELSE [fecha |-> DateObj(now)] @@ tx

CoerceFecha(tx, now) ==
    IF "fecha" \in DOMAIN tx /\ InstanceOfDate(tx.fecha)
    THEN tx
    ELSE [fecha |-> IF "fecha" \in DOMAIN tx /\ Truthy(tx.fecha)
                    THEN NewDate(tx.fecha)
                    ELSE DateObj(now)] @@ tx

(***************************************************************************)
(* The engine's database: its version (0 while it does not exist), the     *)
(* object stores that exist, their rows and their key generators.          *)
(***************************************************************************)
NoDatabase ==
    [version |-> 0,
     stores  |-> {},
     rows    |-> [n \in StoreNames |-> {}],
     gen     |-> [n \in StoreNames |-> 1]]

HasKey(d, name, key) == \E r \in d.rows[name] : r.id = key

\* The unique index "nombre" of the store categorias (line 173): a row whose
\* nombre is taken by another row is refused.
ViolatesUnique_None(d, name, key, value) == FALSE

ViolatesUnique(d, name, key, value) ==
    /\ name = "categorias"
    /\ \E r \in d.rows[name] : r.nombre = value.nombre /\ r.id # key

\* The key of a value stored with keyPath "id" and autoIncrement: the value's
\* own id when it has one, the key generator's number otherwise.
KeyOf(d, name, value) ==
    IF "id" \in DOMAIN value THEN value.id ELSE d.gen[name]

\* A key generator that does not move.
NextGen_Stuck(d, name, value) == d.gen[name]

NextGen(d, name, value) ==
    IF "id" \in DOMAIN value
    THEN (IF value.id >= d.gen[name] THEN value.id + 1 ELSE d.gen[name])
    ELSE d.gen[name] + 1

\* store.add(value): fails (ConstraintError) on a key or a unique index
\* value that is already there.
StoreAdd(d, name, value) ==
    LET key == KeyOf(d, name, value)
        row == [id |-> key] @@ value
    IN  IF HasKey(d, name, key) \/ ViolatesUnique(d, name, key, value)
        THEN [ok |-> FALSE, d |-> d, key |-> key]
        ELSE [ok  |-> TRUE,
              d   |-> [d EXCEPT !.rows[name] = @ \cup {row},
                                !.gen[name] = NextGen(d, name, value)],
              key |-> key]

\* store.put(value): as add, but a row with the same key is replaced.
StorePut(d, name, value) ==
    LET key == KeyOf(d, name, value)
        row == [id |-> key] @@ value
    IN  IF ViolatesUnique(d, name, key, value)
        THEN [ok |-> FALSE, d |-> d, key |-> key]
        ELSE [ok  |-> TRUE,
              d   |-> [d EXCEPT !.rows[name] =
                                    {r \in @ : r.id # key} \cup {row},
                                !.gen[name] = NextGen(d, name, value)],
              key |-> key]

\* store.delete(key): succeeds whether or not the key is there.
StoreDelete(d, name, key) ==
    [d EXCEPT !.rows[name] = {r \in @ : r.id # key}]

\* A clear that starts the key generator again.
StoreClear_ResetGen(d, name) ==
    [d EXCEPT !.rows[name] = {}, !.gen[name] = 1]

\* store.clear(): removes the rows, keeps the key generator.
StoreClear(d, name) == [d EXCEPT !.rows[name] = {}]

\* The rows of a set in ascending key order, as getAll() returns them.
RECURSIVE InKeyOrder(_)
InKeyOrder(rows) ==
    IF rows = {} THEN << >>
    ELSE LET first == CHOOSE r \in rows : \A q \in rows : r.id <= q.id
         IN  << first >> \o InKeyOrder(rows \ {first})

StoreGetAll(d, name) == InKeyOrder(d.rows[name])

\* index.getAll(key) on the index named after a field: the rows whose
\* field equals the key.
IndexGetAll(d, name, index, key) ==
    InKeyOrder({r \in d.rows[name] : index \in DOMAIN r /\ r[index] = key})

(***************************************************************************)
(* request.onupgradeneeded, lines 167-200: each store that does not exist  *)
(* is created, and the first two are seeded with their default rows.       *)
(***************************************************************************)
DefaultCategorias ==
    << [nombre |-> "Ingreso", tipo |-> "ingreso"],
       [nombre |-> "Gasto", tipo |-> "gasto"],
       [nombre |-> "Ahorro", tipo |-> "ahorro"] >>

DefaultSubcategorias ==
    << [nombre |-> "Salario", categoriaId |-> 1],
       [nombre |-> "Alimentos", categoriaId |-> 2],
       [nombre |-> "Fondo de emergencia", categoriaId |-> 3] >>

CreateObjectStore(d, name) ==
    [d EXCEPT !.stores = @ \cup {name}, !.rows[name] = {}, !.gen[name] = 1]

RECURSIVE AddEach(_, _, _)
AddEach(d, name, values) ==
    IF values = << >> THEN d
    ELSE AddEach(StoreAdd(d, name, Head(values)).d, name, Tail(values))

\* A seeding that looks at the rows instead of at the store's existence.
SeedStore_WhenEmpty(d, name, values) ==
    IF name \notin d.stores
    THEN AddEach(CreateObjectStore(d, name), name, values)
    ELSE IF d.rows[name] = {} THEN AddEach(d, name, values) ELSE d

SeedStore(d, name, values) ==
    IF name \notin d.stores
    THEN AddEach(CreateObjectStore(d, name), name, values)
    ELSE d

onupgradeneeded(d) ==
    LET d1 == SeedStore(d, "categorias", DefaultCategorias)
        d2 == SeedStore(d1, "subcategorias", DefaultSubcategorias)
    IN  SeedStore(d2, "transacciones", << >>)

(***************************************************************************)
(* obtenerResumenFinanciero, lines 492-532.                                *)
(***************************************************************************)
\* lines 498-503: the reduce that builds categoriasMap; a category whose id
\* is falsy (0) is left out.
RECURSIVE categoriasMap(_, _)
categoriasMap(categorias, map) ==
    IF categorias = << >> THEN map
    ELSE LET cat == Head(categorias)
         IN  categoriasMap(Tail(categorias),
                           IF cat.id # 0 THEN (cat.id :> cat) @@ map ELSE map)

EmptyMap == [k \in {} |-> << >>]

ResumenInicial ==
    [threw |-> FALSE, totalIngresos |-> 0, totalGastos |-> 0,
     totalAhorros |-> 0, balance |-> 0]

\* The forEach callback without its guard: reading categoria.tipo of an
\* undefined categoria throws.
SumarTransaccion_NoGuard(resumen, transaccion, map) ==
    IF transaccion.categoriaId \notin DOMAIN map
    THEN [resumen EXCEPT !.threw = TRUE]
    ELSE LET tipo == map[transaccion.categoriaId].tipo
         IN  CASE tipo = "ingreso" ->
                    [resumen EXCEPT !.totalIngresos = @ + transaccion.monto]
               [] tipo = "gasto" ->
                    [resumen EXCEPT !.totalGastos = @ + transaccion.monto]
               [] tipo = "ahorro" ->
                    [resumen EXCEPT !.totalAhorros = @ + transaccion.monto]
               [] OTHER -> resumen

\* lines 512-527: the forEach callback.
SumarTransaccion(resumen, transaccion, map) ==
    IF transaccion.categoriaId \notin DOMAIN map
    THEN resumen
    ELSE LET tipo == map[transaccion.categoriaId].tipo
         IN  CASE tipo = "ingreso" ->
                    [resumen EXCEPT !.totalIngresos = @ + transaccion.monto]
               [] tipo = "gasto" ->
                    [resumen EXCEPT !.totalGastos = @ + transaccion.monto]
               [] tipo = "ahorro" ->
                    [resumen EXCEPT !.totalAhorros = @ + transaccion.monto]
               [] OTHER -> resumen

RECURSIVE forEachTransaccion(_, _, _)
forEachTransaccion(transacciones, resumen, map) ==
    IF transacciones = << >> \/ resumen.threw THEN resumen
    ELSE forEachTransaccion(Tail(transacciones),
                            SumarTransaccion(resumen, Head(transacciones), map),
                            map)

obtenerResumenFinanciero(d) ==
    LET transacciones == StoreGetAll(d, "transacciones")
        categorias == StoreGetAll(d, "categorias")
        map == categoriasMap(categorias, EmptyMap)
        resumen == forEachTransaccion(transacciones, ResumenInicial, map)
    IN  [resumen EXCEPT !.balance =
            resumen.totalIngresos - resumen.totalGastos - resumen.totalAhorros]

(***************************************************************************)
(* The adapter's methods, from the point where `await this.init()` has     *)
(* resolved with handle h: the request runs in its own transaction and the *)
(* promise settles with its outcome.  A call is [op, via, ready] with an   *)
(* arg when the method takes one; via names the entry point the caller     *)
(* used and ready tells whether the adapter was initialized at that time.  *)
(* The result is the database afterwards and what the caller receives.     *)
(***************************************************************************)
Settled(call, i, ok) ==
    [op |-> call.op, via |-> call.via, ready |-> call.ready, inst |-> i,
     ok |-> ok]

init(call, i, d, h) ==
    [d |-> d, ret |-> [handle |-> h] @@ Settled(call, i, TRUE)]

agregarCategoria(call, i, d) ==
    LET r == StoreAdd(d, "categorias", call.arg)
    IN  [d |-> r.d,
         ret |-> [arg |-> call.arg, id |-> r.key,
                  before |-> d.rows["categorias"]]
                 @@ Settled(call, i, r.ok)]

agregarSubcategoria(call, i, d) ==
    LET r == StoreAdd(d, "subcategorias", call.arg)
    IN  [d |-> r.d,
         ret |-> [arg |-> call.arg, id |-> r.key,
                  before |-> d.rows["subcategorias"]]
                 @@ Settled(call, i, r.ok)]

registrarTransaccion(call, i, d, now) ==
    LET transaccion == CoerceFecha(call.arg, now)
        r == StoreAdd(d, "transacciones", transaccion)
    IN  [d |-> r.d,
         ret |-> [arg |-> call.arg, id |-> r.key, at |-> now]
                 @@ Settled(call, i, r.ok)]

obtenerTransacciones(call, i, d) ==
    [d |-> d,
     ret |-> [list |-> StoreGetAll(d, "transacciones")]
             @@ Settled(call, i, TRUE)]

\* The same lookup through the wrong index.
obtenerTransaccionesPorCategoria_WrongIndex(call, i, d) ==
    [d |-> d,
     ret |-> [arg |-> call.arg,
              list |-> IndexGetAll(d, "transacciones", "subcategoriaId",
                                   call.arg)]
             @@ Settled(call, i, TRUE)]

obtenerTransaccionesPorCategoria(call, i, d) ==
    [d |-> d,
     ret |-> [arg |-> call.arg,
              list |-> IndexGetAll(d, "transacciones", "categoriaId",
                                   call.arg)]
             @@ Settled(call, i, TRUE)]

obtenerCategorias(call, i, d) ==
    [d |-> d,
     ret |-> [list |-> StoreGetAll(d, "categorias")]
             @@ Settled(call, i, TRUE)]

obtenerSubcategorias(call, i, d) ==
    [d |-> d,
     ret |-> [list |-> StoreGetAll(d, "subcategorias")]
             @@ Settled(call, i, TRUE)]

\* An update that merges into the stored row's key only when the row exists.
actualizarTransaccion_OnlyExisting(call, i, d) ==
    LET key == KeyOf(d, "transacciones", call.arg)
        r == StorePut(d, "transacciones", call.arg)
    IN  IF HasKey(d, "transacciones", key)
        THEN [d |-> r.d,
              ret |-> [arg |-> call.arg, id |-> r.key,
                       before |-> d.rows["transacciones"]]
                      @@ Settled(call, i, r.ok)]
        ELSE [d |-> d,
              ret |-> [arg |-> call.arg, id |-> key,
                       before |-> d.rows["transacciones"]]
                      @@ Settled(call, i, FALSE)]

actualizarTransaccion(call, i, d) ==
    LET r == StorePut(d, "transacciones", call.arg)
    IN  [d |-> r.d,
         ret |-> [arg |-> call.arg, id |-> r.key,
                  before |-> d.rows["transacciones"]]
                 @@ Settled(call, i, r.ok)]

\* A delete that rejects when the key is absent.
eliminarTransaccion_RejectAbsent(call, i, d) ==
    [d |-> StoreDelete(d, "transacciones", call.arg),
     ret |-> [arg |-> call.arg, value |-> TRUE,
              before |-> d.rows["transacciones"]]
             @@ Settled(call, i, HasKey(d, "transacciones", call.arg))]

eliminarTransaccion(call, i, d) ==
    [d |-> StoreDelete(d, "transacciones", call.arg),
     ret |-> [arg |-> call.arg, value |-> TRUE,
              before |-> d.rows["transacciones"]]
             @@ Settled(call, i, TRUE)]

resumenFinanciero(call, i, d) ==
    LET resumen == obtenerResumenFinanciero(d)
    IN  [d |-> d,
         ret |-> [resumen |-> resumen] @@ Settled(call, i, ~resumen.threw)]

\* lines 538-555: one clear per store.
limpiarDatos(call, i, d) ==
    LET d1 == StoreClear(d, "categorias")
        d2 == StoreClear(d1, "subcategorias")
        d3 == StoreClear(d2, "transacciones")
    IN  [d |-> d3,
         ret |-> [value |-> << TRUE, TRUE, TRUE >>] @@ Settled(call, i, TRUE)]

Body(call, i, d, h, now) ==
    CASE call.op = "init" -> init(call, i, d, h)
      [] call.op = "agregarCategoria" -> agregarCategoria(call, i, d)
      [] call.op = "agregarSubcategoria" -> agregarSubcategoria(call, i, d)
      [] call.op = "registrarTransaccion" ->
            registrarTransaccion(call, i, d, now)
      [] call.op = "obtenerTransacciones" -> obtenerTransacciones(call, i, d)
      [] call.op = "obtenerTransaccionesPorCategoria" ->
            obtenerTransaccionesPorCategoria(call, i, d)
      [] call.op = "obtenerCategorias" -> obtenerCategorias(call, i, d)
      [] call.op = "obtenerSubcategorias" -> obtenerSubcategorias(call, i, d)
      [] call.op = "actualizarTransaccion" -> actualizarTransaccion(call, i, d)
      [] call.op = "eliminarTransaccion" -> eliminarTransaccion(call, i, d)
      [] call.op = "obtenerResumenFinanciero" -> resumenFinanciero(call, i, d)
      [] call.op = "limpiarDatos" -> limpiarDatos(call, i, d)

\* What the caller of a method receives when its `await this.init()` rejects.
Rejected(call, i) ==
    IF "arg" \in DOMAIN call
    THEN [arg |-> call.arg] @@ Settled(call, i, FALSE)
    ELSE Settled(call, i, FALSE)

(***************************************************************************)
(* State.                                                                  *)
(***************************************************************************)
VARIABLES
    idb,             \* the engine's database finanzasPersonalesDB
    conns,           \* handles of the connections that are open
    nextHandle,      \* the handle the next successful open returns
    openQueue,       \* open requests the engine has not answered, in order
    db,              \* this.db of each adapter instance
    isInitialized,   \* this.isInitialized of each adapter instance
    mounted,         \* whether the hook's effect has run
    isLoading,       \* the hook's isLoading
    error,           \* the hook's error
    now,             \* Date.now()
    ret,             \* the outcome of the call that settled last
    handlesReturned, \* the handles init() has resolved with, per instance
    seedCount,       \* how often the default categories were added
    registered,      \* registrations settled and not touched since
    wiped,           \* limpiarDatos settled and nothing was added since
    issued,          \* ids of transacciones stored so far, and deleted
    raced,           \* registrations that ran while another was in flight
    formConfig,      \* useForm: which of schema / validate the caller gave
    values,          \* useForm: values
    errors,          \* useForm: errors
    touched,         \* useForm: touched
    isSubmitting,    \* useForm: isSubmitting
    running,         \* useForm: onSubmit promises that have not settled
    formRet,         \* useForm: what the handler that ran last did
    maps,            \* income store: the Map objects that are referenced
    incomesRef,      \* income store: the Map that state.incomes refers to
    nextUuid,        \* income store: the next value of uuidv4()
    incomesList,     \* index-based income store: state.incomes
    incomeRet        \* income stores: what the action that ran last did

finanzasVars ==
    << idb, conns, nextHandle, openQueue, db, isInitialized, mounted,
       isLoading, error, now, ret, handlesReturned, seedCount, registered,
       wiped, issued, raced >>

formVars ==
    << formConfig, values, errors, touched, isSubmitting, running, formRet >>

incomeVars == << maps, incomesRef, nextUuid, incomesList, incomeRet >>

vars == << finanzasVars, formVars, incomeVars >>

adapterVars == << conns, nextHandle, openQueue, db, isInitialized,
                  handlesReturned, seedCount >>

hookVars == << mounted, isLoading, error >>

historyVars == << registered, wiped, issued, raced >>

NoRet == [op |-> "none", via |-> "none", ready |-> FALSE, inst |-> 0,
          ok |-> TRUE]

(***************************************************************************)
(* useForm and the two income stores: JavaScript values and the state      *)
(* after construction.                                                     *)
(***************************************************************************)
Undefined == [type |-> "undefined"]

BoolVal(b) == [type |-> "boolean", value |-> b]

\* The fields of the form the repository builds with useForm
\* (IncomeAcordionBody: name and isDeductible, of name, value, isDeductible
\* and description).
Fields == {"name", "isDeductible"}

initialValues ==
    [f \in Fields |-> IF f = "name" THEN StringVal("") ELSE BoolVal(FALSE)]

\* The object {}.
NoKeys == [f \in {} |-> Undefined]

FormConfigs == {"schema", "validate", "none"}

\* lines 44-47 of useForm.
FormInit(config) ==
    /\ formConfig = config
    /\ values = initialValues
    /\ errors = NoKeys
    /\ touched = NoKeys
    /\ isSubmitting = FALSE
    /\ running = 0
    /\ formRet = [op |-> "none"]

\* initState of the store keyed by id (one empty Map) and incomes: [] of
\* the index-based store.
IncomeInit ==
    /\ maps = << << >>, << >> >>
    /\ incomesRef = 1
    /\ nextUuid = 1
    /\ incomesList = << >>
    /\ incomeRet = [op |-> "none"]

FinanzasInit ==
    /\ idb = NoDatabase
    /\ conns = {}
    /\ nextHandle = 1
    /\ openQueue = << >>
    /\ db = [i \in Inst |-> NoHandle]
    /\ isInitialized = [i \in Inst |-> FALSE]
    /\ mounted = FALSE
    /\ isLoading = TRUE
    /\ error = "null"
    /\ now = 1
    /\ ret = NoRet
    /\ handlesReturned = [i \in Inst |-> {}]
    /\ seedCount = 0
    /\ registered = {}
    /\ wiped = FALSE
    /\ issued = [stored |-> {}, deleted |-> {}]
    /\ raced = {}

Init == FinanzasInit /\ FormInit("schema") /\ IncomeInit

\* The form hook built with a schema, with a validate function, or with
\* neither.
InitForm ==
    FinanzasInit /\ (\E config \in FormConfigs : FormInit(config)) /\ IncomeInit

(***************************************************************************)
(* Inputs.                                                                 *)
(***************************************************************************)
TransaccionInputs ==
    { [categoriaId |-> 1, subcategoriaId |-> 1, monto |-> 100,
       fecha |-> DateObj(7)],
      [categoriaId |-> 2, subcategoriaId |-> 2, monto |-> 40,
       descripcion |-> "d"],
      [categoriaId |-> 2, subcategoriaId |-> 1, monto |-> 10,
       fecha |-> StringVal("x")],
      [categoriaId |-> 9, subcategoriaId |-> 1, monto |-> 5,
       fecha |-> NumberVal(8)],
      [id |-> 1, categoriaId |-> 1, subcategoriaId |-> 2, monto |-> 1,
       fecha |-> NumberVal(0)] }

UpdateInputs ==
    { [categoriaId |-> 2, subcategoriaId |-> 1, monto |-> 3,
       fecha |-> DateObj(7)] }
    \cup { [id |-> k, categoriaId |-> 3, subcategoriaId |-> 1, monto |-> 4,
            fecha |-> DateObj(7)] : k \in 1..MaxKey }

CategoriaIds == {1, 2, 3, 9}

ResumenInputs ==
    { [categoriaId |-> 1, subcategoriaId |-> 1, monto |-> 100,
       fecha |-> DateObj(7)],
      [categoriaId |-> 2, subcategoriaId |-> 2, monto |-> 40,
       fecha |-> DateObj(7)],
      [categoriaId |-> 3, subcategoriaId |-> 3, monto |-> 10,
       fecha |-> DateObj(7)],
      [categoriaId |-> 9, subcategoriaId |-> 1, monto |-> 5,
       fecha |-> DateObj(7)],
      [categoriaId |-> 0, subcategoriaId |-> 1, monto |-> 7,
       fecha |-> DateObj(7)] }

CategoriaInputs ==
    { [id |-> 0, nombre |-> "Cero", tipo |-> "ingreso"],
      [nombre |-> "Gasto", tipo |-> "gasto"] }

SubcategoriaInputs == { [nombre |-> "Salario", categoriaId |-> 1] }

NombreInputs ==
    { [nombre |-> "Gasto", tipo |-> "ingreso"],
      [nombre |-> "Viajes", tipo |-> "gasto"],
      [id |-> 2, nombre |-> "Otro", tipo |-> "ahorro"],
      [id |-> 7, nombre |-> "Viajes", tipo |-> "ahorro"] }

SubNombreInputs ==
    { [nombre |-> "Salario", categoriaId |-> 2],
      [id |-> 1, nombre |-> "Renta", categoriaId |-> 2] }

SessionInputs ==
    { [categoriaId |-> 1, subcategoriaId |-> 1, monto |-> 100,
       fecha |-> DateObj(7)] }

FacadeInputs ==
    { [subcategoriaId |-> 1, monto |-> 100],
      [subcategoriaId |-> 2, monto |-> 40, fecha |-> DateObj(7)] }

GastoInputs == { [subcategoriaId |-> 2, monto |-> 40] }

RaceInputs ==
    { [categoriaId |-> 1, subcategoriaId |-> 1, monto |-> 100,
       fecha |-> DateObj(7)],
      [categoriaId |-> 2, subcategoriaId |-> 2, monto |-> 40] }

\* The adapters built with new FinanzasDB().
SameInst == {1, 3}

\* The key generators stay within the bounds: a call that would draw a key
\* is made only while the generator has not passed the bound.
KeysLeft(name, bound) == idb.gen[name] <= bound

(***************************************************************************)
(* The history the claims refer to.                                        *)
(***************************************************************************)
Registered(reg, r) ==
    CASE r.op = "registrarTransaccion" /\ r.ok ->
            {e \in reg : e.id # r.id}
            \cup {[id |-> r.id, input |-> r.arg, at |-> r.at]}
      [] r.op = "actualizarTransaccion" /\ r.ok -> {e \in reg : e.id # r.id}
      [] r.op = "eliminarTransaccion" -> {e \in reg : e.id # r.arg}
      [] r.op = "limpiarDatos" -> {}
      [] OTHER -> reg

Wiped(w, r) ==
    CASE r.op = "limpiarDatos" -> TRUE
      [] r.op \in {"agregarCategoria", "agregarSubcategoria",
                   "registrarTransaccion", "actualizarTransaccion"}
         /\ r.ok -> FALSE
      [] OTHER -> w

Issued(iss, r, d) ==
    [stored  |-> iss.stored \cup {row.id : row \in d.rows["transacciones"]},
     deleted |-> IF r.op = "eliminarTransaccion"
                    /\ \E row \in r.before : row.id = r.arg
                 THEN iss.deleted \cup {r.arg}
                 ELSE iss.deleted]

IsRegistrar(call) == call.op = "registrarTransaccion"

\* A registrarTransaccion is waiting for its open request.
PendingRegistrar(queue) ==
    \E n \in 1..Len(queue) : IsRegistrar(queue[n].call)

\* The waiting registrations were in flight together with another one.
MarkRaced(queue) ==
    [n \in 1..Len(queue) |->
        IF IsRegistrar(queue[n].call)
        THEN [queue[n] EXCEPT !.raced = TRUE]
        ELSE queue[n]]

Raced(rc, r, together) ==
    IF IsRegistrar(r) /\ together
    THEN rc \cup {[n |-> Cardinality(rc), id |-> r.id, inst |-> r.inst,
                   arg |-> r.arg, ok |-> r.ok]}
    ELSE rc

\* The method's request runs on database d through handle h and settles;
\* flag and rest tell whether another registration was or is in flight.
Settle(call, i, d, h, flag, rest) ==
    LET b == Body(call, i, d, h, now)
    IN  /\ raced' = Raced(raced, b.ret, flag \/ PendingRegistrar(rest))
        /\ idb' = b.d
        /\ ret' = b.ret
        /\ registered' = Registered(registered, b.ret)
        /\ wiped' = Wiped(wiped, b.ret)
        /\ issued' = Issued(issued, b.ret, b.d)

(***************************************************************************)
(* init(), lines 161-212, and the `await this.init()` that opens every     *)
(* method: with the adapter initialized the method goes on at once;        *)
(* otherwise a new open request is issued and the method goes on when the  *)
(* engine answers it.                                                      *)
(***************************************************************************)
Invoke(i, call) ==
    /\ IF isInitialized[i] /\ db[i] # NoHandle
       THEN /\ Settle(call, i, idb, db[i], FALSE, openQueue)
            /\ openQueue' = IF IsRegistrar(call) THEN MarkRaced(openQueue)
                             ELSE openQueue
            /\ UNCHANGED << conns, nextHandle, db, isInitialized,
                            handlesReturned, seedCount, hookVars, now,
                            formVars, incomeVars >>
       ELSE /\ Len(openQueue) < MaxPending
            /\ openQueue' =
                   Append(openQueue,
                          [inst |-> i, call |-> call,
                           raced |-> IsRegistrar(call)
                                     /\ PendingRegistrar(openQueue)])
            /\ UNCHANGED << idb, conns, nextHandle, db, isInitialized,
                            handlesReturned, seedCount, hookVars, now, ret,
                            historyVars, formVars, incomeVars >>

Direct(i, op) == [op |-> op, via |-> op, ready |-> isInitialized[i]]

DirectArg(i, op, arg) == [arg |-> arg] @@ Direct(i, op)

CallInit(i) == Invoke(i, Direct(i, "init"))

AgregarCategoria(i, c) == Invoke(i, DirectArg(i, "agregarCategoria", c))

AgregarSubcategoria(i, c) == Invoke(i, DirectArg(i, "agregarSubcategoria", c))

RegistrarTransaccion(i, tx) ==
    Invoke(i, DirectArg(i, "registrarTransaccion", tx))

ObtenerTransacciones(i) == Invoke(i, Direct(i, "obtenerTransacciones"))

ObtenerTransaccionesPorCategoria(i, c) ==
    Invoke(i, DirectArg(i, "obtenerTransaccionesPorCategoria", c))

ObtenerCategorias(i) == Invoke(i, Direct(i, "obtenerCategorias"))

ObtenerSubcategorias(i) == Invoke(i, Direct(i, "obtenerSubcategorias"))

ActualizarTransaccion(i, tx) ==
    Invoke(i, DirectArg(i, "actualizarTransaccion", tx))

EliminarTransaccion(i, id) ==
    Invoke(i, DirectArg(i, "eliminarTransaccion", id))

ObtenerResumenFinanciero(i) ==
    Invoke(i, Direct(i, "obtenerResumenFinanciero"))

LimpiarDatos(i) == Invoke(i, Direct(i, "limpiarDatos"))

(***************************************************************************)
(* The engine answers the oldest open request.                             *)
(***************************************************************************)
\* The database after the open of an adapter whose version is v: a lower
\* stored version (or none) runs onupgradeneeded first.
Opened(d, v) ==
    IF d.version < v THEN [onupgradeneeded(d) EXCEPT !.version = v] ELSE d

\* request.onsuccess, lines 202-206, and then the method that was waiting.
OpenSuccess ==
    /\ openQueue # << >>
    /\ nextHandle <= MaxHandles
    /\ LET req == Head(openQueue)
           i == req.inst
           d == Opened(idb, dbVersion(i))
       IN  /\ idb.version <= dbVersion(i)
           \* an upgrade waits until every other connection is closed
           /\ (0 < idb.version /\ idb.version < dbVersion(i)) => conns = {}
           /\ openQueue' = Tail(openQueue)
           /\ conns' = conns \cup {nextHandle}
           /\ nextHandle' = nextHandle + 1
           /\ db' = [db EXCEPT ![i] = nextHandle]
           /\ isInitialized' = [isInitialized EXCEPT ![i] = TRUE]
           /\ handlesReturned' =
                  [handlesReturned EXCEPT ![i] = @ \cup {nextHandle}]
           /\ seedCount' = IF d.rows["categorias"] # idb.rows["categorias"]
                           THEN seedCount + 1 ELSE seedCount
           /\ Settle(req.call, i, d, nextHandle, req.raced, Tail(openQueue))
           \* lines 584-585: the hook's effect was the caller
           /\ isLoading' = IF req.call.via = "hook" THEN FALSE ELSE isLoading
           /\ UNCHANGED << mounted, error, now, formVars, incomeVars >>

\* An effect whose catch branch sets the error and leaves isLoading alone.
OpenError_LoadingKept ==
    /\ openQueue # << >>
    /\ LET req == Head(openQueue)
       IN  /\ openQueue' = Tail(openQueue)
           /\ ret' = Rejected(req.call, req.inst)
           /\ isLoading' = isLoading
           /\ error' = IF req.call.via = "hook" THEN "Error" ELSE error
           /\ UNCHANGED << idb, conns, nextHandle, db, isInitialized, mounted,
                           now, handlesReturned, seedCount, historyVars,
                           formVars, incomeVars >>

\* request.onerror, lines 208-210: the open fails (the storage is not
\* available, or the stored version is higher than the adapter's) and the
\* waiting method rejects.
OpenError ==
    /\ openQueue # << >>
    /\ LET req == Head(openQueue)
       IN  /\ openQueue' = Tail(openQueue)
           /\ ret' = Rejected(req.call, req.inst)
           \* lines 586-590: the hook's effect catches the failure
           /\ isLoading' = IF req.call.via = "hook" THEN FALSE ELSE isLoading
           /\ error' = IF req.call.via = "hook" THEN "Error" ELSE error
           /\ UNCHANGED << idb, conns, nextHandle, db, isInitialized, mounted,
                           now, handlesReturned, seedCount, historyVars,
                           formVars, incomeVars >>

(***************************************************************************)
(* useFinanzas, lines 576-633.                                             *)
(***************************************************************************)
\* lines 581-594: the effect calls db.init() once; isLoading falls when the
\* promise settles, at once if the adapter is initialized already.
Mount ==
    /\ ~mounted
    /\ mounted' = TRUE
    /\ LET call == [op |-> "init", via |-> "hook",
                    ready |-> isInitialized[1]]
       IN  IF isInitialized[1] /\ db[1] # NoHandle
           THEN /\ Settle(call, 1, idb, db[1], FALSE, openQueue)
                /\ isLoading' = FALSE
                /\ UNCHANGED << adapterVars, error, now, formVars, incomeVars >>
           ELSE /\ Len(openQueue) < MaxPending
                /\ openQueue' = Append(openQueue, [inst |-> 1, call |-> call,
                                                   raced |-> FALSE])
                /\ UNCHANGED << idb, conns, nextHandle, db, isInitialized,
                                isLoading, error, now, ret, handlesReturned,
                                seedCount, historyVars,
                                formVars, incomeVars >>

\* fecha: new Date(data.fecha || Date.now())
FacadeFecha(data, t) ==
    IF "fecha" \in DOMAIN data /\ Truthy(data.fecha)
    THEN NewDate(data.fecha)
    ELSE DateObj(t)

\* A facade method returns at once (undefined, or null for obtenerResumen)
\* while isLoading is true.
ReturnEarly(via, call) ==
    /\ ret' = [op |-> via, via |-> via, ready |-> isInitialized[1],
               inst |-> 1, ok |-> TRUE, early |-> TRUE]
    /\ UNCHANGED << idb, adapterVars, hookVars, now, historyVars, formVars,
                    incomeVars >>

\* lines 601-627: registrarIngreso, registrarGasto and registrarAhorro differ
\* in the categoriaId they fix.
Registrar(via, categoriaId, data) ==
    /\ LET call == [op |-> "registrarTransaccion", via |-> via,
                    ready |-> isInitialized[1],
                    arg |-> [categoriaId |-> categoriaId,
                             fecha |-> FacadeFecha(data, now)] @@ data]
       IN  IF isLoading THEN ReturnEarly(via, call) ELSE Invoke(1, call)

RegistrarIngreso(data) == Registrar("registrarIngreso", 1, data)

RegistrarGasto(data) == Registrar("registrarGasto", 2, data)

RegistrarAhorro(data) == Registrar("registrarAhorro", 3, data)

\* lines 628-631
ObtenerResumen ==
    /\ LET call == [op |-> "obtenerResumenFinanciero",
                    via |-> "obtenerResumen", ready |-> isInitialized[1]]
       IN  IF isLoading THEN ReturnEarly("obtenerResumen", call)
           ELSE Invoke(1, call)

(***************************************************************************)
(* The environment: time passes; the page is loaded again, which closes    *)
(* the connections, drops the requests and the adapters, and leaves the    *)
(* stored database.                                                        *)
(***************************************************************************)
Tick ==
    /\ now < MaxNow
    /\ now' = now + 1
    /\ UNCHANGED << idb, adapterVars, hookVars, ret, historyVars, formVars,
                    incomeVars >>

Reload ==
    /\ conns' = {}
    /\ nextHandle' = 1
    /\ openQueue' = << >>
    /\ db' = [i \in Inst |-> NoHandle]
    /\ isInitialized' = [i \in Inst |-> FALSE]
    /\ mounted' = FALSE
    /\ isLoading' = TRUE
    /\ error' = "null"
    /\ ret' = NoRet
    /\ handlesReturned' = [i \in Inst |-> {}]
    /\ UNCHANGED << idb, now, seedCount, historyVars, formVars, incomeVars >>

(***************************************************************************)
(* The income store keyed by id (income/ui/hooks/use-income.tsx).  A Map   *)
(* is the sequence of its entries in insertion order.  maps holds two Map  *)
(* objects: the one state.incomes refers to (incomesRef) and the one it    *)
(* referred to before the last action, when that is another object; a Map  *)
(* that nothing refers to any more gives its place to the next new Map.    *)
(* The values of uuidv4() are numbered in the order they are drawn.        *)
(***************************************************************************)
\* The place of a new Map.
NewRef == 3 - incomesRef

MapHas(m, key) == \E n \in 1..Len(m) : m[n].key = key

\* Map.prototype.set: the value of a key that is there is replaced where it
\* stands, another key is added at the end.
MapSet(m, key, value) ==
    IF MapHas(m, key)
    THEN [n \in 1..Len(m) |->
             IF m[n].key = key THEN [key |-> key, value |-> value] ELSE m[n]]
    ELSE Append(m, [key |-> key, value |-> value])

\* Map.prototype.delete
MapDelete(m, key) ==
    LET Keep(e) == e.key # key IN SelectSeq(m, Keep)

\* state.incomes
incomes == maps[incomesRef]

\* lines 25-33: a clone of the Map with the new entry is installed.
addIncome(income) ==
    LET uuid == nextUuid
        clonedIncome == MapSet(incomes, uuid, [id |-> uuid] @@ income)
    IN  /\ nextUuid' = nextUuid + 1
        /\ maps' = [maps EXCEPT ![NewRef] = clonedIncome]
        /\ incomesRef' = NewRef

AddIncome(income) ==
    /\ addIncome(income)
    /\ incomeRet' = [store |-> "map", op |-> "addIncome", arg |-> income,
                     uuid |-> nextUuid, ref |-> incomesRef,
                     before |-> incomes]
    /\ UNCHANGED << incomesList, finanzasVars, formVars >>

\* lines 34-40: a clone of the Map without the entry is installed.
RemoveIncome(id) ==
    /\ maps' = [maps EXCEPT ![NewRef] = MapDelete(incomes, id)]
    /\ incomesRef' = NewRef
    /\ incomeRet' = [store |-> "map", op |-> "removeIncome", id |-> id,
                     ref |-> incomesRef, before |-> incomes]
    /\ UNCHANGED << nextUuid, incomesList, finanzasVars, formVars >>

\* lines 41-43: state.incomes.set(id, income) changes the Map that is
\* installed and returns it, so the same Map is installed again.
UpdateIncome(id, income) ==
    /\ maps' = [maps EXCEPT ![incomesRef] = MapSet(@, id, income),
                            ![NewRef] = << >>]
    /\ incomesRef' = incomesRef
    /\ incomeRet' = [store |-> "map", op |-> "updateIncome", id |-> id,
                     arg |-> income, ref |-> incomesRef, before |-> incomes]
    /\ UNCHANGED << nextUuid, incomesList, finanzasVars, formVars >>

(***************************************************************************)
(* The index-based income store (incomes: Income[]).  Index k of the code  *)
(* is position k + 1 of the sequence.                                      *)
(***************************************************************************)
\* incomes.filter((_, i) => i !== index)
FilterIndex(list, index) ==
    LET Kept == {n \in 1..Len(list) : n - 1 # index}
        RECURSIVE Take(_)
        Take(n) == IF n > Len(list) THEN << >>
                   ELSE (IF n \in Kept THEN << list[n] >> ELSE << >>)
                        \o Take(n + 1)
    IN  Take(1)

\* incomes.map((item, i) => (i === index ? income : item))
MapIndex(list, index, income) ==
    [n \in 1..Len(list) |-> IF n - 1 = index THEN income ELSE list[n]]

ListAddIncome(income) ==
    /\ incomesList' = Append(incomesList, income)
    /\ incomeRet' = [store |-> "list", op |-> "addIncome", arg |-> income,
                     before |-> incomesList]
    /\ UNCHANGED << maps, incomesRef, nextUuid, finanzasVars, formVars >>

\* A removal with splice, which counts a negative index from the end.
ListRemoveIncome_Splice(index) ==
    LET at == IF index < 0 THEN Len(incomesList) + index ELSE index
    IN  /\ incomesList' = FilterIndex(incomesList, at)
        /\ incomeRet' = [store |-> "list", op |-> "removeIncome",
                         index |-> index, before |-> incomesList]
        /\ UNCHANGED << maps, incomesRef, nextUuid, finanzasVars, formVars >>

ListRemoveIncome(index) ==
    /\ incomesList' = FilterIndex(incomesList, index)
    /\ incomeRet' = [store |-> "list", op |-> "removeIncome",
                     index |-> index, before |-> incomesList]
    /\ UNCHANGED << maps, incomesRef, nextUuid, finanzasVars, formVars >>

ListUpdateIncome(index, income) ==
    /\ incomesList' = MapIndex(incomesList, index, income)
    /\ incomeRet' = [store |-> "list", op |-> "updateIncome",
                     index |-> index, arg |-> income, before |-> incomesList]
    /\ UNCHANGED << maps, incomesRef, nextUuid, finanzasVars, formVars >>

IncomeInputs == { [name |-> "test", value |-> "100", isDeductible |-> FALSE] }

ListIncomeInputs ==
    { [name |-> "test", value |-> "100"],
      [name |-> "renta", value |-> "7", description |-> "d"] }

IncomeUpdates ==
    { [id |-> 1, name |-> "nuevo", value |-> "1", isDeductible |-> FALSE] }

\* The ids a caller can name: the values uuidv4() has given out, and 0 for
\* a text that uuidv4() never gives.
IncomeIds == {id \in 0..MaxUuid : id < nextUuid}

NextIncome ==
    \/ \E income \in IncomeInputs :
           nextUuid <= MaxUuid /\ AddIncome(income)
    \/ \E id \in IncomeIds : RemoveIncome(id)
    \/ \E id \in IncomeIds, income \in IncomeUpdates :
           UpdateIncome(id, income)
    \/ \E income \in ListIncomeInputs :
           Len(incomesList) < MaxList /\ ListAddIncome(income)
    \/ \E index \in -1..MaxList : ListRemoveIncome(index)
    \/ \E index \in -1..MaxList, income \in ListIncomeInputs :
           ListUpdateIncome(index, income)

SpecIncome == Init /\ [][NextIncome]_vars

(***************************************************************************)
(* useForm (commons/ui/hooks/use-form).  The handlers of a render see the  *)
(* state of that render, and the component renders again between two       *)
(* events, so each action reads the current state.                         *)
(***************************************************************************)
\* The texts the inputs type, and what the code computes from them.
StrLen(text) ==
    CASE text = "" -> 0
      [] text = "abc" -> 3
      [] text = "Sueldo" -> 6

\* Number(value) of the text of a number input.
ToNumber(text) == CASE text = "5" -> 5 [] OTHER -> 0

\* The issues of the ZodError that schema.parse(values) throws, with the
\* schema of IncomeAcordionBody (lines 32-37): name is a string of at least
\* 4 characters and isDeductible is a boolean.
ZodIssues(v) ==
    (IF v.name.type # "string"
     THEN << [path |-> << "name" >>, message |-> "Expected string"] >>
     ELSE IF StrLen(v.name.value) < 4
          THEN << [path |-> << "name" >>,
                   message |-> "El name es requerido"] >>
          ELSE << >>)
    \o (IF v.isDeductible.type # "boolean"
        THEN << [path |-> << "isDeductible" >>,
                 message |-> "Expected boolean"] >>
        ELSE << >>)

\* error.path.join('.') of a path of one field.
JoinPath(path) == path[1]

\* lines 50-59
RECURSIVE zodErrorsToValidationErrors(_, _)
zodErrorsToValidationErrors(issues, validationErrors) ==
    IF issues = << >> THEN validationErrors
    ELSE zodErrorsToValidationErrors(
             Tail(issues),
             (JoinPath(Head(issues).path) :> StringVal(Head(issues).message))
                 @@ validationErrors)

\* A validate function of the caller: name is required.
Validate(v) ==
    IF v.name = StringVal("") THEN ("name" :> StringVal("Required"))
    ELSE NoKeys

\* lines 62-80
validateWithSchema(config, valuesToValidate) ==
    CASE config = "schema" ->
            IF ZodIssues(valuesToValidate) = << >> THEN NoKeys
            ELSE zodErrorsToValidationErrors(ZodIssues(valuesToValidate),
                                             NoKeys)
      [] config = "validate" -> Validate(valuesToValidate)
      [] OTHER -> NoKeys

\* object[name], undefined when the key is not there
Get(object, name) ==
    IF name \in DOMAIN object THEN object[name] ELSE Undefined

\* x || undefined
OrUndefined(x) == IF Truthy(x) THEN x ELSE Undefined

\* lines 83-92
validateField(name) ==
    LET fieldErrors == validateWithSchema(formConfig, values)
    IN  errors' = (name :> OrUndefined(Get(fieldErrors, name))) @@ errors

\* line 100
isValid == DOMAIN errors = {}

ValidateField(name) ==
    /\ validateField(name)
    /\ formRet' = [op |-> "validateField", name |-> name]
    /\ UNCHANGED << formConfig, values, touched, isSubmitting, running,
                    finanzasVars, incomeVars >>

\* lines 103-126
HandleChange(name, event) ==
    LET newValue ==
            IF event.type = "checkbox" THEN BoolVal(event.checked)
            ELSE IF event.type = "number"
                 THEN (IF event.value = "" THEN StringVal("")
                       ELSE NumberVal(ToNumber(event.value)))
                 ELSE StringVal(event.value)
    IN  /\ values' = (name :> newValue) @@ values
        /\ errors' = IF Truthy(Get(errors, name))
                     THEN (name :> Undefined) @@ errors
                     ELSE errors
        /\ formRet' = [op |-> "handleChange", name |-> name]
        /\ UNCHANGED << formConfig, touched, isSubmitting, running,
                        finanzasVars, incomeVars >>

\* lines 129-140
HandleBlur(name) ==
    /\ touched' = (name :> TRUE) @@ touched
    /\ validateField(name)
    /\ formRet' = [op |-> "handleBlur", name |-> name]
    /\ UNCHANGED << formConfig, values, isSubmitting, running,
                    finanzasVars, incomeVars >>

\* lines 143-148
SetFieldValue(name, value) ==
    /\ values' = (name :> value) @@ values
    /\ formRet' = [op |-> "setFieldValue", name |-> name]
    /\ UNCHANGED << formConfig, errors, touched, isSubmitting, running,
                    finanzasVars, incomeVars >>

\* lines 151-156
SetFieldError(name, message) ==
    /\ errors' = (name :> StringVal(message)) @@ errors
    /\ formRet' = [op |-> "setFieldError", name |-> name]
    /\ UNCHANGED << formConfig, values, touched, isSubmitting, running,
                    finanzasVars, incomeVars >>

\* lines 159-164
ResetForm ==
    /\ values' = initialValues
    /\ errors' = NoKeys
    /\ touched' = NoKeys
    /\ isSubmitting' = FALSE
    /\ formRet' = [op |-> "resetForm"]
    /\ UNCHANGED << formConfig, running, finanzasVars, incomeVars >>

\* What handleSubmit leaves in formRet: whether it called onSubmit, and
\* which one.
Submitted(called, onSubmit) ==
    [op |-> "handleSubmit", called |-> called, onSubmit |-> onSubmit]

\* A handleSubmit that goes on to onSubmit whatever the validation gave.
HandleSubmit_NoReturn(onSubmit) ==
    LET formErrors == validateWithSchema(formConfig, values)
        allTouched == [key \in DOMAIN values |-> TRUE]
    IN  /\ onSubmit \in {"returns", "throws"}
        /\ errors' = formErrors
        /\ touched' = allTouched
        /\ isSubmitting' = FALSE
        /\ formRet' = Submitted(TRUE, onSubmit)
        /\ UNCHANGED << formConfig, values, running, finanzasVars,
                        incomeVars >>

\* lines 167-198.  onSubmit is the caller's: one that returns or throws at
\* once (the finally branch runs before the next event), one whose promise
\* stays pending, and one that calls resetForm before it returns, as the
\* onSubmit of IncomeAcordionBody does (line 51).
HandleSubmit(onSubmit) ==
    LET formErrors == validateWithSchema(formConfig, values)
        allTouched == [key \in DOMAIN values |-> TRUE]
    IN  IF DOMAIN formErrors # {}
        THEN /\ errors' = formErrors
             /\ touched' = allTouched
             /\ formRet' = Submitted(FALSE, onSubmit)
             /\ UNCHANGED << formConfig, values, isSubmitting, running,
                             finanzasVars, incomeVars >>
        ELSE CASE onSubmit \in {"returns", "throws"} ->
                    /\ errors' = formErrors
                    /\ touched' = allTouched
                    /\ isSubmitting' = FALSE
                    /\ formRet' = Submitted(TRUE, onSubmit)
                    /\ UNCHANGED << formConfig, values, running,
                                    finanzasVars, incomeVars >>
               [] onSubmit = "pending" ->
                    /\ running < MaxRunning
                    /\ errors' = formErrors
                    /\ touched' = allTouched
                    /\ isSubmitting' = TRUE
                    /\ running' = running + 1
                    /\ formRet' = Submitted(TRUE, onSubmit)
                    /\ UNCHANGED << formConfig, values, finanzasVars,
                                    incomeVars >>
               [] onSubmit = "resetForm" ->
                    /\ values' = initialValues
                    /\ errors' = NoKeys
                    /\ touched' = NoKeys
                    /\ isSubmitting' = FALSE
                    /\ formRet' = Submitted(TRUE, onSubmit)
                    /\ UNCHANGED << formConfig, running, finanzasVars,
                                    incomeVars >>

\* The promise of a pending onSubmit settles: lines 191-195.
OnSubmitSettles(threw) ==
    /\ running > 0
    /\ running' = running - 1
    /\ isSubmitting' = FALSE
    /\ formRet' = [op |-> "onSubmitSettled", threw |-> threw]
    /\ UNCHANGED << formConfig, values, errors, touched, finanzasVars,
                    incomeVars >>

\* The events of the inputs of IncomeAcordionBody (a text input for name,
\* a checkbox for isDeductible), and of a number input.
ChangeEvents(name) ==
    IF name = "isDeductible"
    THEN { [type |-> "checkbox", checked |-> TRUE],
           [type |-> "checkbox", checked |-> FALSE] }
    ELSE { [type |-> "text", value |-> "abc"],
           [type |-> "text", value |-> "Sueldo"],
           [type |-> "number", value |-> ""],
           [type |-> "number", value |-> "5"] }

\* The values a caller sets a field to.
FieldValues(name) ==
    IF name = "isDeductible" THEN {BoolVal(TRUE)}
    ELSE {StringVal("Sueldo")}

OnSubmits == {"returns", "throws", "pending", "resetForm"}

NextForm ==
    \/ \E name \in Fields : \E event \in ChangeEvents(name) :
           HandleChange(name, event)
    \/ \E name \in Fields : HandleBlur(name)
    \/ \E name \in Fields : ValidateField(name)
    \/ \E name \in Fields : \E value \in FieldValues(name) :
           SetFieldValue(name, value)
    \/ \E name \in Fields : SetFieldError(name, "Bad")
    \/ ResetForm
    \/ \E onSubmit \in OnSubmits : HandleSubmit(onSubmit)
    \/ \E threw \in BOOLEAN : OnSubmitSettles(threw)

SpecForm == InitForm /\ [][NextForm]_vars

(***************************************************************************)
(* Specifications.  Spec exercises the transaction methods and SpecResumen *)
(* the categories and the summary, both with a caller that awaits each     *)
(* call before the next; SpecWipe follows limpiarDatos across adapters and *)
(* reloads of the page; SpecSession exercises initialization with calls    *)
(* that overlap: both adapters, the hook and its facade.                   *)
(***************************************************************************)
\* The caller has no call waiting for its open request.
Idle == openQueue = << >>

Next ==
    \/ \E tx \in TransaccionInputs :
           /\ Idle /\ KeysLeft("transacciones", MaxKey)
           /\ RegistrarTransaccion(1, tx)
    \/ Idle /\ ObtenerTransacciones(1)
    \/ \E c \in CategoriaIds : Idle /\ ObtenerTransaccionesPorCategoria(1, c)
    \/ \E tx \in UpdateInputs :
           /\ Idle /\ KeysLeft("transacciones", MaxKey)
           /\ ActualizarTransaccion(1, tx)
    \/ \E id \in 1..MaxKey : Idle /\ EliminarTransaccion(1, id)
    \/ Idle /\ LimpiarDatos(1)
    \/ OpenSuccess
    \/ OpenError
    \/ Tick

Spec == Init /\ [][Next]_vars

NextResumen ==
    \/ \E c \in CategoriaInputs :
           /\ Idle /\ KeysLeft("categorias", MaxSeedKey)
           /\ AgregarCategoria(1, c)
    \/ \E tx \in ResumenInputs :
           /\ Idle /\ KeysLeft("transacciones", MaxResumenKey)
           /\ RegistrarTransaccion(1, tx)
    \/ Idle /\ ObtenerResumenFinanciero(1)
    \/ Idle /\ LimpiarDatos(1)
    \/ OpenSuccess
    \/ OpenError

SpecResumen == Init /\ [][NextResumen]_vars

NextWipe ==
    \/ \E i \in Inst : Idle /\ CallInit(i)
    \/ \E i \in Inst : Idle /\ LimpiarDatos(i)
    \/ \E tx \in SessionInputs :
           /\ Idle /\ KeysLeft("transacciones", MaxSessionKey)
           /\ RegistrarTransaccion(1, tx)
    \/ \E c \in SubcategoriaInputs :
           /\ Idle /\ KeysLeft("subcategorias", MaxSeedKey)
           /\ AgregarSubcategoria(1, c)
    \/ Idle /\ ObtenerTransacciones(1)
    \/ \E i \in Inst : Idle /\ ObtenerCategorias(i)
    \/ Idle /\ ObtenerSubcategorias(1)
    \/ OpenSuccess
    \/ OpenError
    \/ Reload

SpecWipe == Init /\ [][NextWipe]_vars

NextSession ==
    \/ \E i \in Inst : CallInit(i)
    \/ \E i \in Inst, tx \in SessionInputs :
           /\ KeysLeft("transacciones", MaxSessionKey)
           /\ RegistrarTransaccion(i, tx)
    \/ OpenSuccess
    \/ OpenError
    \/ Mount
    \/ \E data \in FacadeInputs :
           KeysLeft("transacciones", MaxSessionKey) /\ RegistrarIngreso(data)
    \/ \E data \in GastoInputs :
           KeysLeft("transacciones", MaxSessionKey) /\ RegistrarGasto(data)
    \/ \E data \in GastoInputs :
           KeysLeft("transacciones", MaxSessionKey) /\ RegistrarAhorro(data)
    \/ ObtenerResumen
    \/ Reload

SpecSession == Init /\ [][NextSession]_vars

\* The hook's facade next to the adapter's own methods, with a caller that
\* awaits each call.
NextFacade ==
    \/ Mount
    \/ OpenSuccess
    \/ OpenError
    \/ \E data \in FacadeInputs :
           /\ Idle /\ KeysLeft("transacciones", MaxKey)
           /\ RegistrarIngreso(data)
    \/ \E data \in GastoInputs :
           /\ Idle /\ KeysLeft("transacciones", MaxKey)
           /\ RegistrarGasto(data)
    \/ \E data \in GastoInputs :
           /\ Idle /\ KeysLeft("transacciones", MaxKey)
           /\ RegistrarAhorro(data)
    \/ Idle /\ ObtenerResumen
    \/ \E c \in CategoriaInputs :
           /\ Idle /\ KeysLeft("categorias", MaxSeedKey)
           /\ AgregarCategoria(1, c)
    \/ Idle /\ LimpiarDatos(1)

SpecFacade == Init /\ [][NextFacade]_vars

\* One mounted hook and the calls made on its adapter, overlapping; the
\* engine answers every open request, with success or with an error.
NextHook ==
    \/ Mount
    \/ CallInit(1)
    \/ \E data \in FacadeInputs :
           KeysLeft("transacciones", MaxSessionKey) /\ RegistrarIngreso(data)
    \/ ObtenerResumen
    \/ OpenSuccess
    \/ OpenError
    \/ Tick

SpecHook ==
    Init /\ [][NextHook]_vars /\ WF_vars(OpenError \/ OpenSuccess)

\* Categories and subcategories added next to the default ones.
NextCategorias ==
    \/ \E c \in NombreInputs :
           /\ Idle /\ KeysLeft("categorias", MaxSeedKey)
           /\ AgregarCategoria(1, c)
    \/ \E c \in SubNombreInputs :
           /\ Idle /\ KeysLeft("subcategorias", MaxSeedKey)
           /\ AgregarSubcategoria(1, c)
    \/ Idle /\ ObtenerCategorias(1)
    \/ Idle /\ ObtenerSubcategorias(1)
    \/ Idle /\ LimpiarDatos(1)
    \/ OpenSuccess
    \/ OpenError

SpecCategorias == Init /\ [][NextCategorias]_vars

\* Registrations that overlap, on one adapter and on two adapters of the
\* same database and version.
NextRace ==
    \/ \E i \in SameInst : CallInit(i)
    \/ \E i \in SameInst, tx \in RaceInputs :
           /\ KeysLeft("transacciones", MaxSessionKey)
           /\ RegistrarTransaccion(i, tx)
    \/ OpenSuccess
    \/ OpenError
    \/ Reload

SpecRace == Init /\ [][NextRace]_vars

(***************************************************************************)
(* Properties.                                                             *)
(***************************************************************************)
Rows(name) == idb.rows[name]

AProbe(op) == [op |-> op, via |-> op, ready |-> TRUE]

\* What the three list methods would return in the current state.
ListaTransacciones ==
    obtenerTransacciones(AProbe("obtenerTransacciones"), 1, idb).ret.list

ListaCategorias ==
    obtenerCategorias(AProbe("obtenerCategorias"), 1, idb).ret.list

ListaSubcategorias ==
    obtenerSubcategorias(AProbe("obtenerSubcategorias"), 1, idb).ret.list

Elements(seq) == {seq[n] : n \in 1..Len(seq)}

RECURSIVE SumMonto(_)
SumMonto(rows) ==
    IF rows = {} THEN 0
    ELSE LET r == CHOOSE r \in rows : TRUE
         IN  r.monto + SumMonto(rows \ {r})

\* The request of the call that settled last did run (its init resolved).
Ran(op) == ret.op = op /\ "before" \in DOMAIN ret

\* C1: two init() calls on one adapter instance resolve with the same
\* database handle, whatever their order or overlap, and the default
\* categories are added once.
C1_InitIdempotent ==
    /\ \A i \in Inst : Cardinality(handlesReturned[i]) <= 1
    /\ seedCount <= 1

SameFields(row, input) ==
    /\ row.categoriaId = input.categoriaId
    /\ row.subcategoriaId = input.subcategoriaId
    /\ row.monto = input.monto
    /\ ("descripcion" \in DOMAIN row) = ("descripcion" \in DOMAIN input)
    /\ "descripcion" \in DOMAIN input => row.descripcion = input.descripcion
    /\ "fecha" \in DOMAIN row
    /\ InstanceOfDate(row.fecha)
    /\ ("fecha" \in DOMAIN input /\ InstanceOfDate(input.fecha))
           => row.fecha = input.fecha

\* C2: a transaction that registrarTransaccion stored under id k is listed by
\* obtenerTransacciones with id k and the input's categoriaId, subcategoriaId,
\* monto, descripcion and fecha (a Date in any case), as long as no delete,
\* update or clear touched it.
C2_RegisteredIsListed ==
    \A e \in registered :
        \E n \in 1..Len(ListaTransacciones) :
            /\ ListaTransacciones[n].id = e.id
            /\ SameFields(ListaTransacciones[n], e.input)

\* C2, reached: a registration whose input had no fecha has settled.
C2_Witness ==
    /\ ret.op = "registrarTransaccion" /\ ret.ok
    /\ \E e \in registered : e.id = ret.id /\ "fecha" \notin DOMAIN e.input

OfTipo(tipo) ==
    {tx \in Rows("transacciones") :
        \E cat \in Rows("categorias") :
            cat.id = tx.categoriaId /\ cat.tipo = tipo}

\* C3: the summary's three totals are the sums of monto over the stored
\* transactions whose category has tipo ingreso, gasto and ahorro, and the
\* balance is totalIngresos - totalGastos - totalAhorros.
C3_ResumenIsSumByTipo ==
    (ret.op = "obtenerResumenFinanciero" /\ ret.ok) =>
        /\ ret.resumen.totalIngresos = SumMonto(OfTipo("ingreso"))
        /\ ret.resumen.totalGastos = SumMonto(OfTipo("gasto"))
        /\ ret.resumen.totalAhorros = SumMonto(OfTipo("ahorro"))
        /\ ret.resumen.balance =
               SumMonto(OfTipo("ingreso")) - SumMonto(OfTipo("gasto"))
               - SumMonto(OfTipo("ahorro"))

Unmatched ==
    {tx \in Rows("transacciones") :
        \A cat \in Rows("categorias") : cat.id # tx.categoriaId}

\* C4: the summary resolves although a stored transaction's categoriaId
\* matches no category, and such transactions add nothing: the result is the
\* one the same database gives without them.
C4_UnmatchedIgnored ==
    (ret.op = "obtenerResumenFinanciero" /\ "resumen" \in DOMAIN ret) =>
        /\ ret.ok
        /\ ret.resumen =
               obtenerResumenFinanciero(
                   [idb EXCEPT !.rows["transacciones"] = @ \ Unmatched])

\* C4, reached: a summary over matched and unmatched transactions.
C4_Witness ==
    /\ ret.op = "obtenerResumenFinanciero" /\ ret.ok
    /\ Unmatched # {}
    /\ Rows("transacciones") \ Unmatched # {}

PorCategoria(c) ==
    obtenerTransaccionesPorCategoria(
        [arg |-> c] @@ AProbe("obtenerTransaccionesPorCategoria"), 1, idb).ret

\* C5: for every category id, obtenerTransaccionesPorCategoria resolves with
\* exactly the entries of obtenerTransacciones whose categoriaId is that id,
\* each once, and with the empty sequence when there is none.
C5_PorCategoriaIsSubset ==
    \A c \in CategoriaIds :
        /\ PorCategoria(c).ok
        /\ Elements(PorCategoria(c).list) =
               {r \in Elements(ListaTransacciones) : r.categoriaId = c}
        /\ Len(PorCategoria(c).list) =
               Cardinality(Elements(PorCategoria(c).list))

\* C5, reached: a lookup that returned some of the stored rows, not all.
C5_Witness ==
    /\ ret.op = "obtenerTransaccionesPorCategoria" /\ ret.ok
    /\ ret.list # << >>
    /\ Len(ret.list) < Len(ListaTransacciones)

\* C6: once limpiarDatos has resolved, and until something is added again,
\* obtenerTransacciones, obtenerCategorias and obtenerSubcategorias return
\* empty sequences; no later init(), on the same or on another adapter
\* instance, brings the default rows back.
C6_WipedStaysEmpty ==
    wiped =>
        /\ ListaTransacciones = << >>
        /\ ListaCategorias = << >>
        /\ ListaSubcategorias = << >>

\* C6, reached: after the wipe the second adapter's init() has opened the
\* database and run the upgrade to its version.
C6_Witness ==
    /\ wiped
    /\ ret.op = "init" /\ ret.ok /\ ~ret.ready
    /\ idb.version = OtherDbVersion

\* C7: actualizarTransaccion replaces the whole row stored under tx.id and
\* leaves the other rows as they were; with no such row, or no id in tx, it
\* does not fail: tx is inserted and the call resolves with its id.
C7_UpdateReplacesOrInserts ==
    Ran("actualizarTransaccion") =>
        /\ ret.ok
        /\ "id" \in DOMAIN ret.arg => ret.id = ret.arg.id
        /\ "id" \notin DOMAIN ret.arg =>
               \A r \in ret.before : r.id # ret.id
        /\ Rows("transacciones") =
               {r \in ret.before : r.id # ret.id}
               \cup {[id |-> ret.id] @@ ret.arg}

\* C7, reached: an update whose id was not stored has settled.
C7_Witness ==
    /\ Ran("actualizarTransaccion") /\ ret.ok
    /\ "id" \in DOMAIN ret.arg
    /\ \A r \in ret.before : r.id # ret.arg.id
    /\ ret.before # {}

\* C8: eliminarTransaccion resolves true for an id that is stored (the row
\* goes, the others stay) and for one that is not (nothing changes).
C8_DeleteResolvesTrue ==
    Ran("eliminarTransaccion") =>
        /\ ret.ok
        /\ ret.value = TRUE
        /\ Rows("transacciones") = {r \in ret.before : r.id # ret.arg}
        /\ (\A r \in ret.before : r.id # ret.arg)
               => Rows("transacciones") = ret.before

\* C8, reached: a delete of an id that was not stored has settled.
C8_Witness ==
    /\ Ran("eliminarTransaccion") /\ ret.ok
    /\ \A r \in ret.before : r.id # ret.arg
    /\ ret.before # {}

StoredRow == CHOOSE r \in Rows("transacciones") : r.id = ret.id

IsValidDate(input) ==
    /\ "fecha" \in DOMAIN input
    /\ \/ input.fecha.type = "Date" /\ input.fecha.valid
       \/ input.fecha.type = "number" /\ input.fecha.value # 0

\* C9 (as claimed): registrarTransaccion stores the current time as fecha when
\* the input's fecha is missing or is not a valid date, and stores a fecha
\* that is a Date unchanged.
C9_InvalidBecomesNow ==
    (ret.op = "registrarTransaccion" /\ ret.ok) =>
        /\ ~IsValidDate(ret.arg) /\ ~("fecha" \in DOMAIN ret.arg
                                       /\ InstanceOfDate(ret.arg.fecha))
               => StoredRow.fecha = DateObj(ret.at)
        /\ ("fecha" \in DOMAIN ret.arg /\ InstanceOfDate(ret.arg.fecha))
               => StoredRow.fecha = ret.arg.fecha

\* C9 (amended): a missing or falsy fecha is stored as the current time; a
\* fecha that is a Date is stored unchanged; any other fecha v is stored as
\* new Date(v): the date of a time value, an Invalid Date for a text that is
\* no date.
C9_Coercion ==
    (ret.op = "registrarTransaccion" /\ ret.ok) =>
        LET input == ret.arg
            stored == StoredRow.fecha
        IN  CASE "fecha" \notin DOMAIN input -> stored = DateObj(ret.at)
              [] input.fecha.type = "Date" -> stored = input.fecha
              [] input.fecha.type = "number" ->
                    stored = IF input.fecha.value = 0
                             THEN DateObj(ret.at)
                             ELSE [type |-> "Date", valid |-> TRUE,
                                   time |-> input.fecha.value]
              [] input.fecha.type = "string" ->
                    stored = IF input.fecha.value = ""
                             THEN DateObj(ret.at)
                             ELSE InvalidDate

\* C9, reached: a fecha that is a text and no date was stored as an
\* Invalid Date.
C9_Witness ==
    /\ ret.op = "registrarTransaccion" /\ ret.ok
    /\ "fecha" \in DOMAIN ret.arg
    /\ ret.arg.fecha.type = "string"
    /\ StoredRow.fecha = InvalidDate

FacadeOps ==
    {"registrarIngreso", "registrarGasto", "registrarAhorro", "obtenerResumen"}

\* C10: a facade method called while the adapter is not initialized
\* (initialization pending or failed) returns undefined (null for
\* obtenerResumen) at once and writes nothing; the call is never queued.
C10_NotReadyReturnsEarly ==
    (ret.via \in FacadeOps /\ ~ret.ready) => "early" \in DOMAIN ret

FacadeTipo(via) ==
    CASE via = "registrarIngreso" -> "ingreso"
      [] via = "registrarGasto" -> "gasto"
      [] via = "registrarAhorro" -> "ahorro"

TotalOf(resumen, tipo) ==
    CASE tipo = "ingreso" -> resumen.totalIngresos
      [] tipo = "gasto" -> resumen.totalGastos
      [] tipo = "ahorro" -> resumen.totalAhorros

WithoutRow(id) ==
    [idb EXCEPT !.rows["transacciones"] = {r \in @ : r.id # id}]

StoredByFacade ==
    /\ ret.via \in {"registrarIngreso", "registrarGasto", "registrarAhorro"}
    /\ ret.op = "registrarTransaccion" /\ ret.ok /\ "id" \in DOMAIN ret

\* C11: when registrarIngreso, registrarGasto or registrarAhorro has stored a
\* transaction, its categoriaId (1, 2, 3) is the id of a stored category of
\* tipo ingreso, gasto, ahorro, and the matching total of the summary counts
\* the transaction's monto.
C11_FacadeCategoriaExists ==
    StoredByFacade =>
        /\ \E cat \in Rows("categorias") :
               /\ cat.id = ret.arg.categoriaId
               /\ cat.tipo = FacadeTipo(ret.via)
        /\ TotalOf(obtenerResumenFinanciero(idb), FacadeTipo(ret.via)) =
               TotalOf(obtenerResumenFinanciero(WithoutRow(ret.id)),
                       FacadeTipo(ret.via)) + ret.arg.monto

\* C14: every stored transaction's categoriaId is the id of a stored
\* category.
C14_CategoriaIdReferencesCategoria ==
    \A tx \in Rows("transacciones") :
        \E cat \in Rows("categorias") : cat.id = tx.categoriaId

\* The open requests of the hook's effect that the engine has not answered.
HookPending ==
    Cardinality({n \in 1..Len(openQueue) : openQueue[n].call.via = "hook"})

\* C12: the hook starts with isLoading = true and error = null and its effect
\* calls init() once; isLoading falls when that call settles, with error
\* still null when it resolved and error set when it rejected; afterwards
\* isLoading stays false and error stays as it is; once mounted, isLoading
\* does fall, the engine answering every open request.
C12_HookLifecycle ==
    /\ [](~mounted => (isLoading /\ error = "null"))
    /\ [](isLoading => error = "null")
    /\ [](HookPending + (IF isLoading THEN 0 ELSE 1) =
              (IF mounted THEN 1 ELSE 0))
    /\ [][(isLoading /\ ~isLoading') =>
              /\ ret'.via = "hook" /\ ret'.op = "init"
              /\ ret'.ok <=> error' = "null"]_vars
    /\ [][~isLoading => (~isLoading' /\ error' = error)]_vars
    /\ (mounted ~> ~isLoading)

\* C12, reached: the effect's init() has rejected and the hook shows the
\* error.
C12_Witness ==
    /\ mounted /\ ~isLoading /\ error = "Error"
    /\ ret.via = "hook" /\ ~ret.ok

\* C13: agregarCategoria rejects when a stored category has the same nombre,
\* and the categories are then as before; no two stored categories share a
\* nombre; agregarSubcategoria with a key that is not stored succeeds and
\* adds its row, whether or not its nombre is stored already.
C13_NombreUnique ==
    /\ (Ran("agregarCategoria")
        /\ \E r \in ret.before : r.nombre = ret.arg.nombre) =>
           (~ret.ok /\ Rows("categorias") = ret.before)
    /\ \A r1, r2 \in Rows("categorias") :
           r1.nombre = r2.nombre => r1 = r2
    /\ (Ran("agregarSubcategoria")
        /\ \A r \in ret.before : r.id # ret.id) =>
           /\ ret.ok
           /\ Rows("subcategorias") =
                  ret.before \cup {[id |-> ret.id] @@ ret.arg}

\* C13, reached: a category with a stored nombre was refused, and a
\* subcategory with a stored nombre was added.
C13_Witness ==
    /\ Ran("agregarCategoria") /\ ~ret.ok
    /\ \E r \in ret.before : r.nombre = ret.arg.nombre
    /\ \A r \in ret.before : r.id # ret.id
    /\ Cardinality({r \in Rows("subcategorias") : r.nombre = "Salario"}) = 2

TransaccionIds == {r.id : r \in Rows("transacciones")}

\* The step settles a registrarTransaccion or actualizarTransaccion that
\* stored a row.
StoresRow(ops) ==
    /\ ret'.op \in ops /\ ret'.ok /\ "id" \in DOMAIN ret'
    /\ idb'.rows # idb.rows

\* C15 (as claimed): stored transactions have different ids; an id that
\* registrarTransaccion resolves with is greater than every id stored before;
\* an id that eliminarTransaccion deleted is never the id of a stored
\* transaction again.
C15_IdsNeverReused ==
    /\ [](\A r1, r2 \in Rows("transacciones") : r1.id = r2.id => r1 = r2)
    /\ [][StoresRow({"registrarTransaccion"}) =>
              \A k \in issued.stored : ret'.id > k]_vars
    /\ [](issued.deleted \cap TransaccionIds = {})

\* C15 (amended): stored transactions have different ids; an id that the
\* key generator assigns (registrarTransaccion or actualizarTransaccion with
\* no id in the input) is greater than every id stored before, also after
\* deletes and limpiarDatos, so it is none that was deleted.  An id that the
\* caller supplies is stored as it is.
C15_GeneratedIdsIncrease ==
    /\ [](\A r1, r2 \in Rows("transacciones") : r1.id = r2.id => r1 = r2)
    /\ [][(StoresRow({"registrarTransaccion", "actualizarTransaccion"})
           /\ "id" \notin DOMAIN ret'.arg) =>
              /\ \A k \in issued.stored : ret'.id > k
              /\ ret'.id \notin issued.deleted]_vars

\* C15, reached: after a delete, a generated id was stored that is greater
\* than the deleted one.
C15_Witness ==
    /\ ret.op = "registrarTransaccion" /\ ret.ok
    /\ "id" \in DOMAIN ret /\ "id" \notin DOMAIN ret.arg
    /\ issued.deleted # {}
    /\ ret.id > 1
    /\ Cardinality(TransaccionIds) = 1

\* C16: registrarTransaccion calls that were in flight together, on one
\* adapter or on two adapters of the database, and whose open requests the
\* engine answered with success, all resolve, with different ids, and the
\* row of each is stored with the fields of its input.
C16_RacingRegistrationsSucceed ==
    /\ \A r \in raced :
           /\ r.ok
           /\ \E row \in Rows("transacciones") :
                  row.id = r.id /\ SameFields(row, r.arg)
    /\ \A r1, r2 \in raced : r1.id = r2.id => r1 = r2

\* C16, reached: two registrations waited together for their open requests,
\* one on each adapter, and both have settled.
C16_Witness ==
    \E r1, r2 \in raced :
        /\ r1.inst = 1 /\ r2.inst = 3
        /\ r1.id # r2.id
        /\ openQueue = << >>

\* The sequence without its element at position p.
WithoutPosition(seq, p) ==
    [n \in 1..(Len(seq) - 1) |-> IF n < p THEN seq[n] ELSE seq[n + 1]]

PositionsOf(m, key) == {n \in 1..Len(m) : m[n].key = key}

OnStore(store, op) ==
    "store" \in DOMAIN incomeRet
    /\ incomeRet.store = store /\ incomeRet.op = op

\* C19: in the income store keyed by id every entry's id is the key it is
\* stored under, and an action installs a new Map and leaves the Map that
\* was installed before as it was.
C19_IdIsKeyAndMapIsNew ==
    /\ \A n \in 1..Len(incomes) : incomes[n].value.id = incomes[n].key
    /\ ("store" \in DOMAIN incomeRet /\ incomeRet.store = "map") =>
           /\ incomesRef # incomeRet.ref
           /\ maps[incomeRet.ref] = incomeRet.before

\* C20: addIncome adds one entry (at the end) and leaves the others as they
\* were, in both stores; removeIncome removes the entry with the given id,
\* or at the given index, if there is one, and leaves the others in their
\* order; in the index-based store removeIncome and updateIncome with an
\* index that is not in the list leave the list as it was.
C20_IncomeFrame ==
    /\ OnStore("map", "addIncome") =>
           /\ Len(incomes) = Len(incomeRet.before) + 1
           /\ \A n \in 1..Len(incomeRet.before) :
                  incomes[n] = incomeRet.before[n]
           /\ incomes[Len(incomes)].value =
                  [id |-> incomeRet.uuid] @@ incomeRet.arg
    /\ OnStore("map", "removeIncome") =>
           LET at == PositionsOf(incomeRet.before, incomeRet.id)
           IN  /\ Cardinality(at) <= 1
               /\ at = {} => incomes = incomeRet.before
               /\ \A p \in at : incomes = WithoutPosition(incomeRet.before, p)
    /\ OnStore("list", "addIncome") =>
           /\ Len(incomesList) = Len(incomeRet.before) + 1
           /\ \A n \in 1..Len(incomeRet.before) :
                  incomesList[n] = incomeRet.before[n]
           /\ incomesList[Len(incomesList)] = incomeRet.arg
    /\ OnStore("list", "removeIncome") =>
           IF incomeRet.index \in 0..(Len(incomeRet.before) - 1)
           THEN incomesList =
                    WithoutPosition(incomeRet.before, incomeRet.index + 1)
           ELSE incomesList = incomeRet.before
    /\ (OnStore("list", "updateIncome")
        /\ incomeRet.index \notin 0..(Len(incomeRet.before) - 1)) =>
           incomesList = incomeRet.before

\* C20, reached: removeIncome(-1) on the index-based store with two entries.
C20_Witness ==
    /\ OnStore("list", "removeIncome")
    /\ incomeRet.index = -1
    /\ Len(incomeRet.before) = 2
    /\ Len(incomes) = 2

\* The step is a handleSubmit, or the end of a pending onSubmit.
IsFormStep(op) == formRet'.op = op

\* C17: handleSubmit calls onSubmit exactly when validating the current
\* values gives no errors; when it gives errors, errors becomes the
\* validation result, every field is touched and nothing of onSubmit
\* happens; isSubmitting is true only while an onSubmit is running, and is
\* false when onSubmit has finished, whether it returned or threw.
C17_SubmitOnlyWhenValid ==
    /\ [](isSubmitting => running > 0)
    /\ [][IsFormStep("handleSubmit") =>
              LET formErrors == validateWithSchema(formConfig, values)
              IN  /\ formRet'.called <=> (DOMAIN formErrors = {})
                  /\ ~formRet'.called =>
                         /\ errors' = formErrors
                         /\ touched' = [key \in DOMAIN values |-> TRUE]
                         /\ UNCHANGED << values, isSubmitting, running >>
                  /\ (formRet'.called /\ formRet'.onSubmit # "pending") =>
                         /\ ~isSubmitting'
                         /\ running' = running]_vars
    /\ [][IsFormStep("onSubmitSettled") => ~isSubmitting']_vars

\* C17, reached: with the schema of the income form and values it accepts,
\* handleSubmit called an onSubmit that threw, and isSubmitting is false.
C17_Witness ==
    /\ formRet.op = "handleSubmit"
    /\ formRet.called
    /\ formRet.onSubmit = "throws"
    /\ formConfig = "schema"
    /\ ZodIssues(values) = << >>
    /\ values # initialValues
    /\ ~isSubmitting

\* C18: isValid is true exactly when no field has an error message.
C18_IsValidIffNoMessage ==
    isValid <=> (\A name \in DOMAIN errors : errors[name] = Undefined)

====
